---- MODULE Spec2Model ----
(***************************************************************************)
(* Model of the two Markdown maintenance scripts of greggh/firmo:          *)
(*   src/fix_multiple_blanks.py  collapses runs of newlines                *)
(*   src/fix_tables.py           pads pipe-delimited blocks with newlines  *)
(* A text is a sequence of one-character strings.  The file system is a    *)
(* function from locations (sequences of names below the working           *)
(* directory) to texts; a path string is resolved to a location the way    *)
(* open() does it.                                                         *)
(***************************************************************************)
EXTENDS Integers, Sequences, FiniteSets, TLC

VARIABLES
    fs,       \* location -> content of the regular file there
    fs0,      \* fs at the start of the run
    dirs,     \* locations that are directories
    target,   \* path string handed to a direct call of a fix function
    trace,    \* contents of the target: before, and after each direct call
    script,   \* "blanks" or "tables": which script runs
    pc,       \* "call" (direct calls), "walk", "done"
    pending,  \* os.walk: path strings of directories still to be listed
    root,     \* os.walk: path string of the directory being listed
    files,    \* file names of root the for loop has not reached yet
    stdout,   \* lines printed
    opened    \* location -> number of times open(..., 'w') was called on it

vars == <<fs, fs0, dirs, target, trace, script, pc, pending, root, files,
          stdout, opened>>

\* ------------------------------------------------------------- bounds
MaxLen == 6
MaxLines == 4
MaxRuns == 2
MaxDepth == 1

\* ---------------------------------------------------------- characters
NL == "\n"
PIPE == "|"
SLASH == "/"

CHANGELOG_MD == <<"C","H","A","N","G","E","L","O","G",".","m","d">>
DOT_MD == <<".","m","d">>
README_MD == <<"r","e","a","d","m","e",".","m","d">>
NOTES_TXT == <<"n","o","t","e","s",".","t","x","t">>
SUB == <<"s","u","b">>
DOT == <<".">>
DOCS == <<"d","o","c","s">>
API == <<"a","p","i">>
FORMATTERS == <<"f","o","r","m","a","t","t","e","r","s">>

\* ------------------------------------------------------ path handling
\* os.path.join(a, b) for two components
Join(a, b) ==
    IF Len(b) > 0 /\ b[1] = SLASH THEN b
    ELSE IF Len(a) = 0 \/ a[Len(a)] = SLASH THEN a \o b
    ELSE a \o <<SLASH>> \o b

RECURSIVE SplitSlash(_)
\* the components of a path string, split at every "/"
SplitSlash(p) ==
    IF \A i \in 1..Len(p) : p[i] # SLASH THEN <<p>>
    ELSE LET i == CHOOSE k \in 1..Len(p) :
                      p[k] = SLASH /\ \A j \in 1..(k-1) : p[j] # SLASH
         IN  <<SubSeq(p, 1, i-1)>> \o SplitSlash(SubSeq(p, i+1, Len(p)))

IsName(c) == c # DOT /\ c # <<>>

\* the location a relative path string names: open(file_path), os.scandir(top)
Resolve(p) == SelectSeq(SplitSlash(p), IsName)

\* str.endswith; EndsWithShifted compares one character too early
EndsWithShifted(s, suffix) ==
    /\ Len(s) > Len(suffix)
    /\ SubSeq(s, Len(s) - Len(suffix), Len(s) - 1) = suffix

EndsWith(s, suffix) ==
    /\ Len(s) >= Len(suffix)
    /\ SubSeq(s, Len(s) - Len(suffix) + 1, Len(s)) = suffix

\* ------------------------------------------- fix_multiple_blanks.py
RECURSIVE RunEnd(_, _)
\* last index of the run of newlines that starts at i (greedy \n{2,})
RunEnd(s, i) ==
    IF i < Len(s) /\ s[i+1] = NL THEN RunEnd(s, i+1) ELSE i

RECURSIVE ReSubFrom(_, _)
ReSubFrom(s, i) ==
    IF i > Len(s) THEN <<>>
    ELSE IF s[i] = NL /\ RunEnd(s, i) >= i + 1
         THEN <<NL, NL>> \o ReSubFrom(s, RunEnd(s, i) + 1)
         ELSE <<s[i]>> \o ReSubFrom(s, i + 1)

RECURSIVE ReplaceTripleFrom(_, _)
\* content.replace('\n\n\n', '\n\n'): what a literal replace would do instead
ReplaceTripleFrom(s, i) ==
    IF i > Len(s) THEN <<>>
    ELSE IF i + 2 <= Len(s) /\ s[i] = NL /\ s[i+1] = NL /\ s[i+2] = NL
         THEN <<NL, NL>> \o ReplaceTripleFrom(s, i + 3)
         ELSE <<s[i]>> \o ReplaceTripleFrom(s, i + 1)

ReplaceTriple(s) == ReplaceTripleFrom(s, 1)

RECURSIVE ReSubSingleFrom(_, _)
\* re.sub(r'\n{2,}', '\n', content): the replacement one newline short
ReSubSingleFrom(s, i) ==
    IF i > Len(s) THEN <<>>
    ELSE IF s[i] = NL /\ RunEnd(s, i) >= i + 1
         THEN <<NL>> \o ReSubSingleFrom(s, RunEnd(s, i) + 1)
         ELSE <<s[i]>> \o ReSubSingleFrom(s, i + 1)

ReSubSingle(s) == ReSubSingleFrom(s, 1)

\* re.sub(r'\n{2,}', '\n\n', content)
ReSub(s) == ReSubFrom(s, 1)

\* the exemption test of line 11; NoExemption is the test left out
NoExemption(file_path) == TRUE

NotExempt(file_path) == file_path # CHANGELOG_MD

\* the content fix_multiple_blanks writes back
BlanksContent(file_path, content) ==
    IF NotExempt(file_path) THEN ReSub(content) ELSE content

\* --------------------------------------------------- fix_tables.py
\* The pattern of line 11, matched the way a backtracking matcher explores it:
\*   (?<=\n) \| .*? \| (?:\n\|.*?\|)*? (?=\n)      with re.DOTALL
\* ClosePipe: the lazy .*? grows one character at a time until a closing pipe
\* is followed by a successful rest.  Rest: the lazy group tries zero
\* iterations (the lookahead) before one more row.  Both return the index of
\* the last character of the match, or 0 when there is none.
RECURSIVE ClosePipe(_, _)
RECURSIVE Rest(_, _)
ClosePipe(s, q) ==
    IF q > Len(s) THEN 0
    ELSE IF s[q] = PIPE /\ Rest(s, q + 1) # 0 THEN Rest(s, q + 1)
    ELSE ClosePipe(s, q + 1)

Rest(s, i) ==
    IF i <= Len(s) /\ s[i] = NL THEN i - 1
    ELSE IF i + 1 <= Len(s) /\ s[i] = NL /\ s[i+1] = PIPE
         THEN ClosePipe(s, i + 2)
         ELSE 0

\* an attempt of the pattern at position p
MatchAt(s, p) ==
    IF p > 1 /\ p <= Len(s) /\ s[p-1] = NL /\ s[p] = PIPE
    THEN ClosePipe(s, p + 1)
    ELSE 0

RECURSIVE FindAllFrom(_, _)
FindAllFrom(s, p) ==
    IF p > Len(s) THEN <<>>
    ELSE IF MatchAt(s, p) # 0
         THEN <<SubSeq(s, p, MatchAt(s, p))>> \o FindAllFrom(s, MatchAt(s, p) + 1)
         ELSE FindAllFrom(s, p + 1)

\* re.findall(pattern, content, re.DOTALL): the matches, left to right
FindAll(s) == FindAllFrom(s, 1)

IsAt(s, i, old) ==
    i + Len(old) - 1 <= Len(s) /\ SubSeq(s, i, i + Len(old) - 1) = old

RECURSIVE ReplaceFrom(_, _, _, _)
ReplaceFrom(s, i, old, new) ==
    IF i > Len(s) THEN <<>>
    ELSE IF IsAt(s, i, old)
         THEN new \o ReplaceFrom(s, i + Len(old), old, new)
         ELSE <<s[i]>> \o ReplaceFrom(s, i + 1, old, new)

\* content.replace(old, new) for a non-empty old
Replace(s, old, new) == ReplaceFrom(s, 1, old, new)

\* table_with_blanks of line 15
TableWithBlanks(table) == <<NL>> \o table \o <<NL>>

RECURSIVE PadAll(_, _, _)
\* the loop of lines 13-16 from the k-th table on
PadAll(content, tables, k) ==
    IF k > Len(tables) THEN content
    ELSE PadAll(Replace(content, tables[k], TableWithBlanks(tables[k])),
                tables, k + 1)

\* the content fix_table_formatting writes back
TablesContent(content) == PadAll(content, FindAll(content), 1)

\* ------------------------------------------------------ the two fixers
\* fix_multiple_blanks(file_path): read, transform, write back
FixMultipleBlanks(file_path) ==
    LET loc == Resolve(file_path) IN
    /\ loc \in DOMAIN fs
    /\ fs' = [fs EXCEPT ![loc] = BlanksContent(file_path, fs[loc])]
    /\ opened' = [opened EXCEPT ![loc] = @ + 1]

\* fix_table_formatting(file_path): read, transform, write back
FixTableFormatting(file_path) ==
    LET loc == Resolve(file_path) IN
    /\ loc \in DOMAIN fs
    /\ fs' = [fs EXCEPT ![loc] = TablesContent(fs[loc])]
    /\ opened' = [opened EXCEPT ![loc] = @ + 1]

\* ------------------------------------------------------------ inputs
StringsUpTo(alphabet, n) == UNION {[1..k -> alphabet] : k \in 0..n}

ScenarioA ==
    <<"l","i","n","e","1",NL,NL,NL,NL,"l","i","n","e","2",NL>>
ScenarioB ==
    <<"t","e","x","t",NL,PIPE,"a",PIPE,"b",PIPE,NL,PIPE,"c",PIPE,"d",PIPE,NL,
      "m","o","r","e"," ","t","e","x","t",NL>>
ScenarioC == <<"a",NL,NL,NL,NL,"b",NL>>

BlankInputs == StringsUpTo({"a", NL}, MaxLen) \cup {ScenarioA, ScenarioC}

BlankTargets ==
    { CHANGELOG_MD, README_MD, Join(DOT, CHANGELOG_MD),
      Join(Join(DOT, SUB), CHANGELOG_MD) }

TableLines ==
    { <<>>, <<"a">>, <<PIPE, PIPE>>, <<PIPE, "a", PIPE>>,
      <<PIPE, PIPE, PIPE>>, <<"a", PIPE, PIPE, "a">> }

RECURSIVE Unlines(_)
\* the text whose lines are ls, each with its newline terminator
Unlines(ls) ==
    IF Len(ls) = 0 THEN <<>> ELSE ls[1] \o <<NL>> \o Unlines(SubSeq(ls, 2, Len(ls)))

TableInputs ==
    {Unlines(ls) : ls \in UNION {[1..k -> TableLines] : k \in 1..MaxLines}}
        \cup {ScenarioB}

\* ------------------------------------------- direct calls of a fixer
Idle ==
    /\ dirs = {}
    /\ pending = <<>>
    /\ root = <<>>
    /\ files = {}
    /\ stdout = <<>>

InitCall(scr, targets, inputs) ==
    /\ script = scr
    /\ pc = "call"
    /\ target \in targets
    /\ \E c \in inputs :
         /\ fs = (Resolve(target) :> c)
         /\ trace = <<c>>
    /\ fs0 = fs
    /\ opened = [loc \in DOMAIN fs |-> 0]
    /\ Idle

CallFixMultipleBlanks ==
    /\ pc = "call"
    /\ script = "blanks"
    /\ Len(trace) <= MaxRuns
    /\ FixMultipleBlanks(target)
    /\ trace' = Append(trace, fs'[Resolve(target)])
    /\ UNCHANGED <<fs0, dirs, target, script, pc, pending, root, files, stdout>>

CallFixTableFormatting ==
    /\ pc = "call"
    /\ script = "tables"
    /\ Len(trace) <= MaxRuns
    /\ FixTableFormatting(target)
    /\ trace' = Append(trace, fs'[Resolve(target)])
    /\ UNCHANGED <<fs0, dirs, target, script, pc, pending, root, files, stdout>>

InitBlanks == InitCall("blanks", BlankTargets, BlankInputs)
NextBlanks == CallFixMultipleBlanks
SpecBlanks == InitBlanks /\ [][NextBlanks]_vars

InitTables == InitCall("tables", {README_MD}, TableInputs)
NextTables == CallFixTableFormatting
SpecTables == InitTables /\ [][NextTables]_vars

\* ------------------------------------------------- process_directory
PROCESSING == <<"P","r","o","c","e","s","s","i","n","g"," ">>

\* the hardcoded root of each script's entry point
Top(scr) ==
    IF scr = "blanks" THEN DOT
    ELSE Join(Join(DOCS, API), FORMATTERS)

FileNames == {CHANGELOG_MD, README_MD, NOTES_TXT}
DirNames == {SUB}

RECURSIVE Below(_, _)
\* the chain of directories top, top/sub, ... down to depth d
Below(loc, d) ==
    IF d = 0 THEN {loc} ELSE {loc} \cup Below(loc \o <<SUB>>, d - 1)

\* what a directory listing of path string p returns
ListFiles(p) == {n \in FileNames : Resolve(p) \o <<n>> \in DOMAIN fs}
ListDirs(p) == {n \in DirNames : Resolve(p) \o <<n>> \in dirs}

\* the orders in which a listing may hand out the names of S
Orders(S) ==
    {q \in [1..Cardinality(S) -> S] : \A n \in S : \E i \in DOMAIN q : q[i] = n}

WalkDoc == <<"a",NL,NL,NL,PIPE,"a",PIPE,NL,"b",NL>>

InitWalk ==
    /\ script \in {"blanks", "tables"}
    /\ pc = "walk"
    /\ \E d \in 0..MaxDepth :
         /\ dirs = Below(Resolve(Top(script)), d)
         /\ \E present \in SUBSET {dir \o <<n>> : dir \in dirs, n \in FileNames} :
              fs = [loc \in present |-> WalkDoc]
    /\ fs0 = fs
    /\ opened = [loc \in DOMAIN fs |-> 0]
    /\ pending = <<Top(script)>>
    /\ root = <<>>
    /\ files = {}
    /\ stdout = <<>>
    /\ target = <<>>
    /\ trace = <<>>

\* os.walk yields the next directory: its files go to the inner loop, its
\* subdirectories are walked next, before the directories already pending
WalkNextDir ==
    /\ pc = "walk"
    /\ files = {}
    /\ pending # <<>>
    /\ root' = Head(pending)
    /\ files' = ListFiles(Head(pending))
    /\ \E order \in Orders(ListDirs(Head(pending))) :
         pending' = [i \in DOMAIN order |-> Join(Head(pending), order[i])]
                        \o Tail(pending)
    /\ UNCHANGED <<fs, fs0, dirs, target, trace, script, pc, stdout, opened>>

\* one iteration of the inner loop, on any file the listing has yet to hand out
VisitFile ==
    /\ pc = "walk"
    /\ \E file \in files :
         /\ files' = files \ {file}
         /\ IF EndsWith(file, DOT_MD)
            THEN LET file_path == Join(root, file) IN
                 /\ stdout' = Append(stdout, PROCESSING \o file_path)
                 /\ IF script = "blanks"
                    THEN FixMultipleBlanks(file_path)
                    ELSE FixTableFormatting(file_path)
            ELSE UNCHANGED <<stdout, fs, opened>>
    /\ UNCHANGED <<fs0, dirs, target, trace, script, pc, pending, root>>

\* os.walk is exhausted: process_directory returns
WalkDone ==
    /\ pc = "walk"
    /\ files = {}
    /\ pending = <<>>
    /\ pc' = "done"
    /\ UNCHANGED <<fs, fs0, dirs, target, trace, script, pending, root, files,
                   stdout, opened>>

NextWalk == WalkNextDir \/ VisitFile \/ WalkDone
SpecWalk == InitWalk /\ [][NextWalk]_vars

\* ===================================================== properties
\* ---- helpers of the properties (independent of the operators above)
Content == fs[Resolve(target)]

\* s occurs in t as a contiguous substring
Occurs(t, s) ==
    \E i \in 1..(Len(t) - Len(s) + 1) : SubSeq(t, i, i + Len(s) - 1) = s

\* a newline that is the third or a later one of its run
Surplus(s, i) == s[i] = NL /\ i >= 3 /\ s[i-1] = NL /\ s[i-2] = NL

RECURSIVE DropSurplus(_, _)
\* s from index i on, without its surplus newlines
DropSurplus(s, i) ==
    IF i > Len(s) THEN <<>>
    ELSE IF Surplus(s, i) THEN DropSurplus(s, i + 1)
    ELSE <<s[i]>> \o DropSurplus(s, i + 1)

HasTriple(s) == Occurs(s, <<NL, NL, NL>>)

ScenarioAOut == <<"l","i","n","e","1",NL,NL,"l","i","n","e","2",NL>>
ScenarioBOut ==
    <<"t","e","x","t",NL,NL,PIPE,"a",PIPE,"b",PIPE,NL,PIPE,"c",PIPE,"d",PIPE,
      NL,NL,"m","o","r","e"," ","t","e","x","t",NL>>

\* C1: after one call of fix_multiple_blanks on a path other than the
\* exempted one, the file holds the input with every run of two or more
\* newlines cut to exactly two and every other character kept in order; it
\* holds no three consecutive newlines; "line1\n\n\n\nline2\n" becomes
\* "line1\n\nline2\n".
C1_CollapsesRuns ==
    (script = "blanks" /\ pc = "call" /\ Len(trace) = 2 /\ target # CHANGELOG_MD)
        => /\ Content = DropSurplus(trace[1], 1)
           /\ trace[2] = Content
           /\ ~HasTriple(Content)
           /\ (trace[1] = ScenarioA => Content = ScenarioAOut)

C1_Witness ==
    /\ script = "blanks" /\ pc = "call" /\ Len(trace) = 2
    /\ target # CHANGELOG_MD
    /\ trace[1] = ScenarioA
    /\ Content = ScenarioAOut

\* C3: on a path other than the exempted one, a second (and any later) call
\* of fix_multiple_blanks leaves the content the first call wrote.
C3_Idempotent ==
    (script = "blanks" /\ pc = "call" /\ target # CHANGELOG_MD)
        => \A k \in 2..Len(trace) : trace[k] = trace[2]

C3_Witness ==
    /\ script = "blanks" /\ pc = "call" /\ target # CHANGELOG_MD
    /\ Len(trace) >= 3
    /\ HasTriple(trace[1])
    /\ trace[2] # trace[1]
    /\ trace[3] = trace[2]

\* C4: called with the path string 'CHANGELOG.md', fix_multiple_blanks
\* writes back exactly the content it read, runs of newlines included.
C4_ExemptUnchanged ==
    (script = "blanks" /\ pc = "call" /\ target = CHANGELOG_MD)
        => /\ \A k \in 1..Len(trace) : trace[k] = trace[1]
           /\ Content = trace[1]

C4_Witness ==
    /\ script = "blanks" /\ pc = "call" /\ target = CHANGELOG_MD
    /\ Len(trace) >= 2
    /\ trace[1] = ScenarioC
    /\ Content = ScenarioC
    /\ opened[Resolve(target)] >= 1

\* a blank line starts at index i of s: a newline at the start of a line
BlankLineAt(s, i) ==
    i \in 1..Len(s) /\ s[i] = NL /\ (i = 1 \/ s[i-1] = NL)

\* C7: after fix_multiple_blanks has run on a path other than the exempted
\* one, the file holds no two consecutive blank lines, at its start and end
\* as in its middle.
C7_NoTwoBlankLines ==
    (script = "blanks" /\ pc = "call" /\ Len(trace) >= 2 /\ target # CHANGELOG_MD)
        => \A i \in 1..Len(Content) :
              ~(BlankLineAt(Content, i) /\ BlankLineAt(Content, i + 1))

\* ---- pipe blocks, read line by line as the claims describe them
\* s[a..b] is one or more whole lines, each beginning and ending with a
\* pipe, preceded by a newline and followed by a newline
IsBlock(s, a, b) ==
    /\ 1 < a /\ a <= b /\ b < Len(s)
    /\ s[a-1] = NL /\ s[b+1] = NL
    /\ s[a] = PIPE /\ s[b] = PIPE
    /\ \A i \in a..b : s[i] = NL => (s[i-1] = PIPE /\ s[i+1] = PIPE)

\* where the line through index i of s begins and ends (s[i] is no newline)
LineStartOf(s, i) ==
    CHOOSE j \in 1..i :
        (j = 1 \/ s[j-1] = NL) /\ \A k \in j..(i-1) : s[k] # NL

LineEndOf(s, i) ==
    CHOOSE j \in i..Len(s) :
        (j = Len(s) \/ s[j+1] = NL) /\ \A k \in (i+1)..j : s[k] # NL

\* the block takes in every adjacent pipe line: the line before it and the
\* line after it are not pipe lines
WholeBlock(s, a, b) ==
    /\ IsBlock(s, a, b)
    /\ ~(a >= 3 /\ s[a-2] = PIPE /\ s[LineStartOf(s, a-2)] = PIPE)
    /\ ~(b + 2 <= Len(s) /\ s[b+2] = PIPE /\ s[LineEndOf(s, b+2)] = PIPE)

\* no blank line before it and none after it
Unflanked(s, a, b) ==
    /\ a >= 3 /\ s[a-2] # NL
    /\ b + 2 <= Len(s) /\ s[b+2] # NL

\* C2: every whole pipe block of the input that has no blank line on either
\* side is found intact in the output of fix_table_formatting, its rows still
\* adjacent, with exactly one blank line before it and one after it; and
\* "text\n|a|b|\n|c|d|\nmore text\n" becomes
\* "text\n\n|a|b|\n|c|d|\n\nmore text\n".
C2_BlockPaddedOnce ==
    (script = "tables" /\ Len(trace) = 2)
        => /\ \A a, b \in 1..Len(trace[1]) :
                (WholeBlock(trace[1], a, b) /\ Unflanked(trace[1], a, b))
                    => Occurs(Content,
                              <<trace[1][a-2], NL, NL>> \o SubSeq(trace[1], a, b)
                                  \o <<NL, NL, trace[1][b+2]>>)
           /\ (trace[1] = ScenarioB => Content = ScenarioBOut)

RECURSIVE CountFrom(_, _, _)
\* the number of occurrences of t in s from index i on, counted left to
\* right without overlap
CountFrom(s, i, t) ==
    IF i > Len(s) THEN 0
    ELSE IF IsAt(s, i, t) THEN 1 + CountFrom(s, i + Len(t), t)
    ELSE CountFrom(s, i + 1, t)

\* every pipe block of s is a single row, so each match of the scan is a block
SingleRows(s) ==
    \A a, b \in 1..Len(s) : IsBlock(s, a, b) => \A i \in a..b : s[i] # NL

\* C5: when the text of a matched block occurs more than once in the
\* document, the output is the input with every occurrence padded by exactly
\* one newline before and one after.  Stated for documents of single-row
\* blocks whose blocks all have the same text.
C5_EachOccurrenceOnce ==
    (script = "tables" /\ Len(trace) = 2 /\ SingleRows(trace[1]))
        => \A t \in {FindAll(trace[1])[k] : k \in DOMAIN FindAll(trace[1])} :
              ( /\ \A k \in DOMAIN FindAll(trace[1]) : FindAll(trace[1])[k] = t
                /\ CountFrom(trace[1], 1, t) >= 2 )
                  => /\ Content = Replace(trace[1], t, <<NL>> \o t \o <<NL>>)
                     /\ Len(Content) = Len(trace[1]) + 2 * CountFrom(trace[1], 1, t)

\* C8: a second call of fix_table_formatting leaves the content the first
\* call wrote.
C8_TablesIdempotent ==
    (script = "tables" /\ pc = "call")
        => \A k \in 2..Len(trace) : trace[k] = trace[2]

RECURSIVE LinesFrom(_, _, _)
\* the non-empty lines of s from index i on; a is where the current line began
LinesFrom(s, a, i) ==
    IF i > Len(s) THEN (IF a < i THEN <<SubSeq(s, a, i - 1)>> ELSE <<>>)
    ELSE IF s[i] = NL
         THEN (IF a < i THEN <<SubSeq(s, a, i - 1)>> ELSE <<>>)
                  \o LinesFrom(s, i + 1, i + 1)
         ELSE LinesFrom(s, a, i + 1)

NonEmptyLines(s) == LinesFrom(s, 1, 1)

\* C10: fix_table_formatting only inserts newlines at line boundaries: the
\* non-empty lines of the output are those of the input, unsplit and in
\* order.
C10_LinesIntact ==
    (script = "tables" /\ Len(trace) = 2)
        => /\ NonEmptyLines(Content) = NonEmptyLines(trace[1])
           /\ Len(Content) >= Len(trace[1])

\* ---- the walk
\* the name ends in ".md"
HasMdSuffix(name) ==
    /\ Len(name) >= 3
    /\ name[Len(name) - 2] = "." /\ name[Len(name) - 1] = "m" /\ name[Len(name)] = "d"

RECURSIVE Slashed(_)
Slashed(names) ==
    IF names = <<>> THEN <<>>
    ELSE <<SLASH>> \o names[1] \o Slashed(SubSeq(names, 2, Len(names)))

TopPath == IF script = "blanks" THEN DOT ELSE DOCS \o <<SLASH>> \o API \o <<SLASH>> \o FORMATTERS
TopLoc == IF script = "blanks" THEN <<>> ELSE <<DOCS, API, FORMATTERS>>

\* the path string under which the walk reaches the file at loc
WalkPath(loc) == TopPath \o Slashed(SubSeq(loc, Len(TopLoc) + 1, Len(loc)))

MdFiles == {loc \in DOMAIN fs0 : HasMdSuffix(loc[Len(loc)])}

\* C6: when process_directory has returned, 'Processing <path>' was printed
\* once for each file of the tree whose name ends in '.md' and for nothing
\* else; each of those files was opened once and holds its transformed
\* content; every other file was never opened and holds its old content.
C6_OnlyMarkdown ==
    pc = "done"
        => /\ DOMAIN fs = DOMAIN fs0
           /\ Len(stdout) = Cardinality(MdFiles)
           /\ {stdout[i] : i \in DOMAIN stdout}
                  = {PROCESSING \o WalkPath(loc) : loc \in MdFiles}
           /\ \A loc \in MdFiles :
                 /\ opened[loc] = 1
                 /\ fs[loc] = IF script = "blanks"
                              THEN BlanksContent(WalkPath(loc), fs0[loc])
                              ELSE TablesContent(fs0[loc])
           /\ \A loc \in DOMAIN fs0 \ MdFiles :
                 opened[loc] = 0 /\ fs[loc] = fs0[loc]

C6_Witness ==
    /\ pc = "done"
    /\ TopLoc \o <<README_MD>> \in DOMAIN fs
    /\ TopLoc \o <<NOTES_TXT>> \in DOMAIN fs
    /\ TopLoc \o <<SUB, README_MD>> \in DOMAIN fs
    /\ TopLoc \o <<SUB, NOTES_TXT>> \in DOMAIN fs
    /\ Len(stdout) = 2
    /\ fs[TopLoc \o <<README_MD>>] # WalkDoc
    /\ fs[TopLoc \o <<SUB, README_MD>>] # WalkDoc
    /\ fs[TopLoc \o <<NOTES_TXT>>] = WalkDoc

\* C9: when the blank-line script has walked from '.', a CHANGELOG.md lying
\* directly in the root holds its old content, runs of three or more
\* newlines included; a CHANGELOG.md in a subdirectory does not.
C9_RootChangelogExempt ==
    (script = "blanks" /\ pc = "done")
        => /\ <<CHANGELOG_MD>> \in DOMAIN fs0
                => fs[<<CHANGELOG_MD>>] = fs0[<<CHANGELOG_MD>>]
           /\ <<SUB, CHANGELOG_MD>> \in DOMAIN fs0
                => fs[<<SUB, CHANGELOG_MD>>] = ReSub(fs0[<<SUB, CHANGELOG_MD>>])

====
